---- MODULE Spec2Model ----
(***************************************************************************)
(* A model of the atelier crates: the JSON AST writer (atelier-json        *)
(* writer.rs), the in-memory read/write helpers (atelier-core io/mod.rs)   *)
(* and the semantic-model example and Version of atelier-core lib.rs.      *)
(***************************************************************************)
EXTENDS Integers, Sequences, FiniteSets, TLC

VARIABLES
    fnpc,       \* position of a direct call of JsonWriter::value / ::traits
    val,        \* the NodeValue handed to JsonWriter::value
    tseq,       \* the &[AppliedTrait] handed to JsonWriter::traits
    ret,        \* what the call returned (a JSON value, or the panic marker)
    model,      \* the Model: its version, its shapes by ShapeID, its metadata
    pretty_print, \* JsonWriter.pretty_print of the writer of a single write
    sink_fails, \* whether the Write handed to write reports an I/O error
    wpc,        \* position of the single call of ModelWriter::write
    wresult,    \* what that call ended with
    io_pc,      \* position in read_model_from_string / write_model_to_string
    io_s,       \* the bytes of the argument s of read_model_from_string
    io_buffer,  \* the Cursor: its bytes and its position
    io_seen,    \* the bytes the reader has been given by the stream, in order
    io_eof,     \* whether the reader has been told the stream is at its end
    io_calls,   \* the number of calls of the reader's read / the writer's write
    io_inner,   \* what the reader's read / the writer's write returned
    io_result,  \* what the helper ended with
    am_mode,    \* "example": the crate's example runs; "free": any add_shape calls
    am_pc,      \* the number of add_shape calls made so far
    am_arg,     \* the shape handed to the last add_shape call
    am_before,  \* the shapes of the Model before the last add_shape call
    am_last,    \* what the last add_shape call returned
    am_added,   \* the ShapeIDs of the shapes add_shape has accepted
    par_model,  \* the Model as it was when the parallel writes began
    par_writer, \* per write call: the JsonWriter (pretty_print) and whether w fails
    par_pc,     \* per write call: its position
    par_iter,   \* per write call: the shapes its iteration has yet to yield
    par_map,    \* per write call: the local shape_map of shapes
    par_result, \* per write call: what it ended with
    run_pc,     \* the validation framework: "Idle" or "Running"
    run_i,      \* the number of the Action that is running (0 when Idle)
    run_actions, \* the registered Actions, each by what it does on the Model
    run_findings, \* the Findings collected so far by the run
    run_result, \* what the run returned
    ver_pc,     \* position of the calls on Version
    ver_s,      \* the string handed to Version::from_str
    ver_v,      \* the Version at hand
    ver_result  \* what Version::from_str returned

valueVars == <<fnpc, val, tseq, ret>>
writeVars == <<pretty_print, sink_fails, wpc, wresult>>
ioVars == <<io_pc, io_s, io_buffer, io_seen, io_eof, io_calls, io_inner, io_result>>
addVars == <<am_mode, am_pc, am_arg, am_before, am_last, am_added>>
parVars == <<par_model, par_writer, par_pc, par_iter, par_map, par_result>>
runVars == <<run_pc, run_i, run_actions, run_findings, run_result>>
verVars == <<ver_pc, ver_s, ver_v, ver_result>>

vars ==
    <<fnpc, val, tseq, ret, model, pretty_print, sink_fails, wpc, wresult,
      io_pc, io_s, io_buffer, io_seen, io_eof, io_calls, io_inner, io_result,
      am_mode, am_pc, am_arg, am_before, am_last, am_added,
      par_model, par_writer, par_pc, par_iter, par_map, par_result,
      run_pc, run_i, run_actions, run_findings, run_result,
      ver_pc, ver_s, ver_v, ver_result>>

(***************************************************************************)
(* Bounds of the model.                                                    *)
(***************************************************************************)
MaxArrayLen == 2
MaxTraits == 2
MaxActions == 3
MaxFindings == 1

SeqsUpTo(S, n) == UNION {[1..k -> S] : k \in 0..n}

(***************************************************************************)
(* Option<T>.                                                              *)
(***************************************************************************)
NoneOpt == [some |-> FALSE]
SomeOpt(x) == [some |-> TRUE, v |-> x]

(***************************************************************************)
(* ShapeID: namespace#shape_name with an optional $member_name; its        *)
(* Display is the canonical string.                                        *)
(***************************************************************************)
ShapeId(ns, name) == [namespace |-> ns, shape_name |-> name, member_name |-> <<>>]
MemberId(ns, name, m) == [namespace |-> ns, shape_name |-> name, member_name |-> <<m>>]

ShapeIdToString(id) ==
    id.namespace \o "#" \o id.shape_name
        \o (IF id.member_name = <<>> THEN "" ELSE "$" \o id.member_name[1])

PRELUDE_NAMESPACE == "smithy.api"
Prelude(name) == ShapeId(PRELUDE_NAMESPACE, name)

(***************************************************************************)
(* NodeValue, with the variants the crate documentation lists.             *)
(***************************************************************************)
VNone == [tag |-> "None"]
VBoolean(b) == [tag |-> "Boolean", b |-> b]
VInteger(i) == [tag |-> "Number", num |-> [kind |-> "Integer", i |-> i]]
VFloat(f) == [tag |-> "Number", num |-> [kind |-> "Float", f |-> f]]
VString(s) == [tag |-> "String", s |-> s]
VTextBlock(s) == [tag |-> "TextBlock", s |-> s]
VShapeID(id) == [tag |-> "ShapeID", id |-> id]
VArray(a) == [tag |-> "Array", a |-> a]
VObject(o) == [tag |-> "Object", o |-> o]

NodeValueVariants ==
    {"Array", "Object", "Number", "Boolean", "ShapeID", "TextBlock", "String", "None"}

\* f64 values are named by their literal; the non-finite ones are NaN and the
\* infinities.
FloatPool == {"1.5", "NaN", "inf"}
IsFinite(f) == f \notin {"NaN", "inf", "-inf"}

(***************************************************************************)
(* serde_json::Value, and serde_json::Map as a function from keys.         *)
(***************************************************************************)
JNull == [t |-> "null"]
JBool(b) == [t |-> "bool", b |-> b]
JNumber(n) == [t |-> "num", n |-> n]
JString(s) == [t |-> "str", s |-> s]
JArray(a) == [t |-> "arr", a |-> a]
JObject(o) == [t |-> "obj", o |-> o]

\* The call did not return: Option::unwrap on None panicked.
Panic == [t |-> "PANIC"]
\* The match of JsonWriter::value has no arm for the variant.
NoArm == [t |-> "NOARM"]
IsPanic(j) == j.t = "PANIC"

EmptyMap == [k \in {} |-> JNull]

\* Map::insert: a later insert of a key replaces the value of the earlier one.
InsertKeepFirst(m, k, v) == IF k \in DOMAIN m THEN m ELSE [x \in DOMAIN m \cup {k} |-> IF x = k THEN v ELSE m[x]]
Insert(m, k, v) == [x \in DOMAIN m \cup {k} |-> IF x = k THEN v ELSE m[x]]

\* JsonNumber::from_f64: None for a value that is not finite.
from_f64(f) == IF IsFinite(f) THEN SomeOpt([kind |-> "f64", f |-> f]) ELSE NoneOpt

(***************************************************************************)
(* JsonWriter::value.                                                      *)
(***************************************************************************)
RECURSIVE value(_)
value(v) ==
    CASE v.tag = "None" -> JNull
      [] v.tag = "Array" ->
            LET r == [i \in DOMAIN v.a |-> value(v.a[i])]
            IN  IF \E i \in DOMAIN r : IsPanic(r[i]) THEN Panic ELSE JArray(r)
      [] v.tag = "Object" ->
            LET r == [k \in DOMAIN v.o |-> value(v.o[k])]
            IN  IF \E k \in DOMAIN r : IsPanic(r[k]) THEN Panic ELSE JObject(r)
      [] v.tag = "Number" ->
            IF v.num.kind = "Integer"
            THEN JNumber([kind |-> "i64", i |-> v.num.i])
            ELSE LET n == from_f64(v.num.f)
                 IN  IF n.some THEN JNumber(n.v) ELSE Panic
      [] v.tag = "Boolean" -> JBool(v.b)
      [] v.tag = "String" -> JString(v.s)
      [] OTHER -> NoArm

(***************************************************************************)
(* AppliedTrait and JsonWriter::traits.                                    *)
(***************************************************************************)
AppliedTrait(id, optValue) == [id |-> id, value |-> optValue]

TraitJson(a_trait) ==
    IF a_trait.value.some THEN value(a_trait.value.v) ELSE JObject(EmptyMap)

RECURSIVE traits_loop(_, _, _)
traits_loop(ts, i, trait_map) ==
    IF i > Len(ts) THEN JObject(trait_map)
    ELSE LET j == TraitJson(ts[i])
         IN  IF IsPanic(j) THEN Panic
             ELSE traits_loop(ts, i + 1, Insert(trait_map, ShapeIdToString(ts[i].id), j))

traits(ts) == traits_loop(ts, 1, EmptyMap)

(***************************************************************************)
(* Inputs.                                                                 *)
(***************************************************************************)
AtomValues ==
    {VNone, VBoolean(TRUE), VInteger(1), VString("a"), VTextBlock("a"),
     VShapeID(Prelude("String"))} \cup {VFloat(f) : f \in FloatPool}

ObjKeys == {"a", "b"}

\* Arrays and objects of atoms, and each of these nested once more in an array
\* and in an object.
FlatValues ==
    AtomValues \cup {VArray(a) : a \in SeqsUpTo(AtomValues, MaxArrayLen)}
               \cup {VObject(o) : o \in UNION {[K -> AtomValues] : K \in SUBSET ObjKeys}}

Values ==
    FlatValues \cup {VArray(<<x>>) : x \in FlatValues}
               \cup {VObject([k \in {"a"} |-> x]) : x \in FlatValues}

TraitIds == {Prelude("documentation"), Prelude("required")}
TraitValues ==
    {NoneOpt, SomeOpt(VInteger(1)), SomeOpt(VInteger(2)), SomeOpt(VFloat("NaN"))}
TraitPool == {AppliedTrait(id, ov) : id \in TraitIds, ov \in TraitValues}
TraitSeqs == SeqsUpTo(TraitPool, MaxTraits)

NotCalled == [t |-> "NOTCALLED"]
NoVersion == "none"

(***************************************************************************)
(* Direct calls of the two pure helpers of the writer.                     *)
(***************************************************************************)
ValueIdle == fnpc = "idle" /\ val = VNone /\ tseq = <<>> /\ ret = NotCalled
ModelIdle == model = [smithy_version |-> "V10", shapes |-> <<>>, metadata |-> <<>>]
WriteIdle ==
    pretty_print = FALSE /\ sink_fails = FALSE /\ wpc = "idle" /\ wresult = NotCalled
ParIdle ==
    /\ par_model = NotCalled /\ par_writer = <<>> /\ par_pc = <<>>
    /\ par_iter = <<>> /\ par_map = <<>> /\ par_result = <<>>
AddIdle ==
    /\ am_mode = "idle" /\ am_pc = 0 /\ am_arg = NotCalled /\ am_before = <<>>
    /\ am_last = NotCalled /\ am_added = {}
RunIdle ==
    /\ run_pc = "Idle" /\ run_i = 0 /\ run_actions = <<>>
    /\ run_findings = <<>> /\ run_result = NotCalled
VerIdle ==
    ver_pc = "idle" /\ ver_s = "" /\ ver_v = NoVersion /\ ver_result = NotCalled
IoIdle ==
    /\ io_pc = "idle" /\ io_s = <<>> /\ io_buffer = [bytes |-> <<>>, pos |-> 0]
    /\ io_seen = <<>> /\ io_eof = FALSE /\ io_calls = 0
    /\ io_inner = NotCalled /\ io_result = NotCalled

InitValue ==
    /\ ModelIdle /\ WriteIdle /\ IoIdle /\ AddIdle /\ ParIdle /\ RunIdle /\ VerIdle
    /\ ret = NotCalled
    /\ \/ fnpc = "value" /\ val \in Values /\ tseq = <<>>
       \/ fnpc = "traits" /\ val = VNone /\ tseq \in TraitSeqs

CallValue ==
    /\ fnpc = "value"
    /\ ret' = value(val)
    /\ fnpc' = "value_done"
    /\ UNCHANGED <<val, tseq, model, writeVars, ioVars, addVars, parVars, runVars, verVars>>

CallTraits ==
    /\ fnpc = "traits"
    /\ ret' = traits(tseq)
    /\ fnpc' = "traits_done"
    /\ UNCHANGED <<val, tseq, model, writeVars, ioVars, addVars, parVars, runVars, verVars>>

NextValue == CallValue \/ CallTraits

SpecValue == InitValue /\ [][NextValue]_vars

(***************************************************************************)
(* Keys and type names of the JSON AST (crate::syntax).                    *)
(***************************************************************************)
K_SMITHY == "smithy"
K_SHAPES == "shapes"
K_METADATA == "metadata"
K_TRAITS == "traits"
K_TYPE == "type"
K_MEMBER == "member"
K_KEY == "key"
K_VALUE == "value"
K_MEMBERS == "members"
K_TARGET == "target"
K_VERSION == "version"
K_OPERATIONS == "operations"
K_RESOURCES == "resources"
K_COLLECTION_OPERATIONS == "collectionOperations"
K_INPUT == "input"
K_OUTPUT == "output"
K_ERRORS == "errors"
K_IDENTIFIERS == "identifiers"
K_CREATE == "create"
K_PUT == "put"
K_READ == "read"
K_UPDATE == "update"
K_DELETE == "delete"
K_LIST == "list"
V_LIST == "list"
V_SET == "set"
V_MAP == "map"
V_STRUCTURE == "structure"
V_UNION == "union"
V_SERVICE == "service"
V_OPERATION == "operation"
V_RESOURCE == "resource"
V_APPLY == "apply"
FILE_EXTENSION == "json"

(***************************************************************************)
(* Shapes: MemberShape, the ShapeKind bodies and TopLevelShape.            *)
(***************************************************************************)
MemberShape(id, ts, target) == [id |-> id, traits |-> ts, target |-> target]
TopLevelShape(id, ts, body) == [id |-> id, traits |-> ts, body |-> body]

Simple(tag) == [kind |-> "Simple", simple |-> tag]
ListOf(m) == [kind |-> "List", member |-> m]
SetOf(m) == [kind |-> "Set", member |-> m]
MapOf(k, v) == [kind |-> "Map", key |-> k, value |-> v]
Structure(ms) == [kind |-> "Structure", members |-> ms]
Union(ms) == [kind |-> "Union", members |-> ms]
Service(version, ops, res) ==
    [kind |-> "Service", version |-> version, operations |-> ops, resources |-> res]
Operation(input, output, errors) ==
    [kind |-> "Operation", input |-> input, output |-> output, errors |-> errors]
Resource(ids, lifecycle, ops, cops, res) ==
    [kind |-> "Resource", identifiers |-> ids, lifecycle |-> lifecycle,
     operations |-> ops, collection_operations |-> cops, resources |-> res]
Unresolved == [kind |-> "Unresolved"]

has_traits(s) == Len(s.traits) > 0

(***************************************************************************)
(* A serde_json::Map under construction; a panic of a translation that     *)
(* feeds it ends the construction.                                         *)
(***************************************************************************)
NewMap == [panic |-> FALSE, map |-> EmptyMap]
Put(b, k, j) ==
    IF b.panic \/ IsPanic(j) THEN [panic |-> TRUE, map |-> EmptyMap]
    ELSE [panic |-> FALSE, map |-> Insert(b.map, k, j)]
PutIf(cond, b, k, j) == IF cond THEN Put(b, k, j) ELSE b
Built(b) == IF b.panic THEN Panic ELSE JObject(b.map)

(***************************************************************************)
(* JsonWriter::reference, ::members.                                       *)
(***************************************************************************)
reference(id) == JObject(Insert(EmptyMap, K_TARGET, JString(ShapeIdToString(id))))

References(ids) == JArray([i \in DOMAIN ids |-> reference(ids[i])])

\* A member written with its own ShapeID where its target belongs.
member_entry_own_id(member) ==
    Built(Put(PutIf(has_traits(member), NewMap, K_TRAITS, traits(member.traits)),
              K_TARGET, JString(ShapeIdToString(member.id))))

member_entry(member) ==
    Built(Put(PutIf(has_traits(member), NewMap, K_TRAITS, traits(member.traits)),
              K_TARGET, JString(ShapeIdToString(member.target))))

RECURSIVE members_loop(_, _, _)
members_loop(ms, i, members_map) ==
    IF i > Len(ms) THEN Built(members_map)
    ELSE members_loop(ms, i + 1,
                      Put(members_map, ShapeIdToString(ms[i].id), member_entry(ms[i])))

members(ms) == members_loop(ms, 1, NewMap)

(***************************************************************************)
(* JsonWriter::shape.                                                      *)
(***************************************************************************)
LifecycleKeys ==
    <<[f |-> "create", k |-> K_CREATE], [f |-> "put", k |-> K_PUT],
      [f |-> "read", k |-> K_READ], [f |-> "update", k |-> K_UPDATE],
      [f |-> "delete", k |-> K_DELETE], [f |-> "list", k |-> K_LIST]>>

RECURSIVE lifecycle_puts(_, _, _)
lifecycle_puts(v, i, b) ==
    IF i > Len(LifecycleKeys) THEN b
    ELSE LET op == v.lifecycle[LifecycleKeys[i].f]
         IN  lifecycle_puts(v, i + 1,
                            PutIf(op.some, b, LifecycleKeys[i].k,
                                  IF op.some THEN reference(op.v) ELSE JNull))

resource_body(v, b0) ==
    LET b1 == Put(b0, K_TYPE, JString(V_RESOURCE))
        b2 == PutIf(DOMAIN v.identifiers # {}, b1, K_IDENTIFIERS,
                    JObject([id \in DOMAIN v.identifiers |->
                                JString(ShapeIdToString(v.identifiers[id]))]))
        b3 == lifecycle_puts(v, 1, b2)
        b4 == PutIf(Len(v.operations) > 0, b3, K_OPERATIONS, References(v.operations))
        b5 == PutIf(Len(v.collection_operations) > 0, b4, K_OPERATIONS,
                    References(v.collection_operations))
    IN  PutIf(Len(v.resources) > 0, b5, K_COLLECTION_OPERATIONS, References(v.resources))

shape_body(v, b0) ==
    CASE v.kind = "Simple" -> Put(b0, K_TYPE, JString(v.simple))
      [] v.kind = "List" ->
            Put(Put(b0, K_TYPE, JString(V_LIST)), K_MEMBER, reference(v.member.target))
      [] v.kind = "Set" ->
            Put(Put(b0, K_TYPE, JString(V_SET)), K_MEMBER, reference(v.member.target))
      [] v.kind = "Map" ->
            Put(Put(Put(b0, K_TYPE, JString(V_MAP)), K_KEY, reference(v.key.target)),
                K_VALUE, reference(v.value.target))
      [] v.kind = "Structure" ->
            PutIf(Len(v.members) > 0, Put(b0, K_TYPE, JString(V_STRUCTURE)),
                  K_MEMBERS, members(v.members))
      [] v.kind = "Union" ->
            PutIf(Len(v.members) > 0, Put(b0, K_TYPE, JString(V_UNION)),
                  K_MEMBERS, members(v.members))
      [] v.kind = "Service" ->
            LET b1 == Put(Put(b0, K_TYPE, JString(V_SERVICE)), K_VERSION, JString(v.version))
                b2 == PutIf(Len(v.operations) > 0, b1, K_OPERATIONS, References(v.operations))
            IN  PutIf(Len(v.resources) > 0, b2, K_RESOURCES, References(v.resources))
      [] v.kind = "Operation" ->
            LET b1 == Put(b0, K_TYPE, JString(V_OPERATION))
                b2 == PutIf(v.input.some, b1, K_INPUT,
                            IF v.input.some THEN reference(v.input.v) ELSE JNull)
                b3 == PutIf(v.output.some, b2, K_OUTPUT,
                            IF v.output.some THEN reference(v.output.v) ELSE JNull)
            IN  PutIf(Len(v.errors) > 0, b3, K_ERRORS, References(v.errors))
      [] v.kind = "Resource" -> resource_body(v, b0)
      [] v.kind = "Unresolved" -> Put(b0, K_TYPE, JString(V_APPLY))

shape(s) ==
    Built(shape_body(s.body, PutIf(has_traits(s), NewMap, K_TRAITS, traits(s.traits))))

(***************************************************************************)
(* Model, Version's Display, JsonWriter::shapes and ModelWriter::write.    *)
(***************************************************************************)
V10 == "V10"
VersionToString(v) == "1.0"

Model(version, shapeMap, metadata) ==
    [smithy_version |-> version, shapes |-> shapeMap, metadata |-> metadata]

has_metadata(m) == DOMAIN m.metadata # {}

metadata_object(m) ==
    LET r == [k \in DOMAIN m.metadata |-> value(m.metadata[k])]
    IN  IF \E k \in DOMAIN r : IsPanic(r[k]) THEN Panic ELSE JObject(r)

\* The first loop of shapes: one insert per shape of the iteration.
shape_entries(m, ids) ==
    LET r == [id \in ids |-> shape(m.shapes[id])]
    IN  IF \E id \in ids : IsPanic(r[id])
        THEN [panic |-> TRUE, map |-> EmptyMap]
        ELSE [panic |-> FALSE,
              map |-> [k \in {ShapeIdToString(id) : id \in ids} |->
                          r[CHOOSE id \in ids : ShapeIdToString(id) = k]]]

shapes(m) ==
    Built(PutIf(has_metadata(m), shape_entries(m, DOMAIN m.shapes),
                K_METADATA, metadata_object(m)))

\* The document handed to to_writer or to_writer_pretty.
top_object(m) ==
    Built(Put(Put(NewMap, K_SMITHY, JString(VersionToString(m.smithy_version))),
              K_SHAPES, shapes(m)))

\* What the call of write ends with: Ok and the document written to w, in the
\* compact or the pretty rendering; the Serialization error when w fails; or
\* a panic.
WriteOk(pretty, doc) == [status |-> "Ok", pretty |-> pretty, doc |-> doc]
WriteErr == [status |-> "Err", kind |-> "Serialization", arg |-> FILE_EXTENSION]
WritePanic == [status |-> "Panic"]

write(pretty, w_fails, m) ==
    LET top == top_object(m)
    IN  IF IsPanic(top) THEN WritePanic
        ELSE IF w_fails THEN WriteErr
        ELSE WriteOk(pretty, top)

(***************************************************************************)
(* The shapes of the crate's example service (lib.rs, the semantic model   *)
(* API example), and further shapes of the same namespace.                 *)
(***************************************************************************)
Namespace == "example.motd"
Motd(name) == ShapeId(Namespace, name)
StringShape == Prelude("String")

NoLifecycle ==
    [create |-> NoneOpt, put |-> NoneOpt, read |-> NoneOpt,
     update |-> NoneOpt, delete |-> NoneOpt, list |-> NoneOpt]

ExDate ==
    TopLevelShape(Motd("Date"),
                  <<AppliedTrait(Prelude("pattern"), SomeOpt(VString("^\\d\\d\\d\\d\\-\\d\\d-\\d\\d$")))>>,
                  Simple("string"))
ExError ==
    TopLevelShape(Motd("BadDateValue"),
                  <<AppliedTrait(Prelude("error"), SomeOpt(VString("client")))>>,
                  Structure(<<MemberShape(MemberId(Namespace, "BadDateValue", "errorMessage"),
                                          <<>>, StringShape)>>))
ExOutput ==
    TopLevelShape(Motd("GetMessageOutput"), <<>>,
                  Structure(<<MemberShape(MemberId(Namespace, "GetMessageOutput", "message"),
                                          <<AppliedTrait(Prelude("required"), NoneOpt)>>,
                                          StringShape)>>))
ExInput ==
    TopLevelShape(Motd("GetMessageInput"), <<>>,
                  Structure(<<MemberShape(MemberId(Namespace, "GetMessageInput", "date"),
                                          <<>>, Motd("Date"))>>))
ExGetMessage ==
    TopLevelShape(Motd("GetMessage"),
                  <<AppliedTrait(Prelude("readonly"), NoneOpt)>>,
                  Operation(SomeOpt(ExInput.id), SomeOpt(ExOutput.id), <<ExError.id>>))
ExMessage ==
    TopLevelShape(Motd("Message"), <<>>,
                  Resource([date |-> ExDate.id],
                           [NoLifecycle EXCEPT !.read = SomeOpt(ExGetMessage.id)],
                           <<>>, <<>>, <<>>))
ExService ==
    TopLevelShape(Motd("MessageOfTheDay"),
                  <<AppliedTrait(Prelude("documentation"),
                                 SomeOpt(VString("Provides a Message of the day.")))>>,
                  Service("2020-06-21", <<>>, <<ExMessage.id>>))

ExampleShapes == {ExDate, ExError, ExOutput, ExInput, ExGetMessage, ExMessage, ExService}

(***************************************************************************)
(* The models handed to the writer: up to MaxShapes shapes with distinct   *)
(* ShapeIDs, a traits sequence applied to the shapes, to their members or  *)
(* to both, and a metadata map.                                            *)
(***************************************************************************)
MaxShapes == 2

ModelTraitSeqs ==
    {<<>>,
     <<AppliedTrait(Prelude("required"), NoneOpt)>>,
     <<AppliedTrait(Prelude("documentation"), SomeOpt(VString("a"))),
       AppliedTrait(Prelude("required"), NoneOpt)>>,
     <<AppliedTrait(Prelude("documentation"), SomeOpt(VInteger(1))),
       AppliedTrait(Prelude("documentation"), SomeOpt(VInteger(2)))>>,
     <<AppliedTrait(Prelude("documentation"), SomeOpt(VFloat("NaN")))>>}

Member(shapeName, m, ts, target) ==
    MemberShape(MemberId(Namespace, shapeName, m), ts, target)

ResourceBodies ==
    {Resource([date |-> ExDate.id], [NoLifecycle EXCEPT !.read = SomeOpt(ExGetMessage.id)],
              ops, cops, res) :
        ops \in {<<>>, <<Motd("Archive")>>},
        cops \in {<<>>, <<Motd("ListMessages")>>},
        res \in {<<>>, <<Motd("Attachment")>>}}

ShapeTemplates(tsS, tsM) ==
    {TopLevelShape(Motd("Date"), tsS, Simple("string")),
     TopLevelShape(Motd("Dates"), tsS, ListOf(Member("Dates", "member", tsM, Motd("Date")))),
     TopLevelShape(Motd("DateSet"), tsS, SetOf(Member("DateSet", "member", tsM, Motd("Date")))),
     TopLevelShape(Motd("ByDate"), tsS,
                   MapOf(Member("ByDate", "key", tsM, Motd("Date")),
                         Member("ByDate", "value", tsM, StringShape))),
     TopLevelShape(Motd("GetMessageInput"), tsS,
                   Structure(<<Member("GetMessageInput", "date", tsM, Motd("Date")),
                               Member("GetMessageInput", "lang", <<>>, StringShape)>>)),
     TopLevelShape(Motd("Empty"), tsS, Structure(<<>>)),
     TopLevelShape(Motd("Choice"), tsS,
                   Union(<<Member("Choice", "date", tsM, Motd("Date"))>>)),
     TopLevelShape(Motd("NoChoice"), tsS, Union(<<>>)),
     TopLevelShape(Motd("MessageOfTheDay"), tsS,
                   Service("2020-06-21", <<Motd("GetMessage")>>, <<Motd("Message")>>)),
     TopLevelShape(Motd("GetMessage"), tsS,
                   Operation(SomeOpt(Motd("GetMessageInput")), NoneOpt, <<Motd("BadDateValue")>>)),
     TopLevelShape(Motd("Applied"), tsS, Unresolved)}
    \cup {TopLevelShape(Motd("Message"), tsS, b) : b \in ResourceBodies}

TraitPlacements ==
    {[shape |-> tsS, member |-> tsM] :
        tsS \in ModelTraitSeqs, tsM \in ModelTraitSeqs}

RECURSIVE SubsetsUpTo(_, _)
SubsetsUpTo(S, n) ==
    IF n = 0 THEN {{}}
    ELSE LET P == SubsetsUpTo(S, n - 1) IN P \cup {T \cup {x} : T \in P, x \in S}

DistinctIds(S) == \A s1, s2 \in S : s1.id = s2.id => s1 = s2

ShapeMap(S) == [id \in {s.id : s \in S} |-> CHOOSE s \in S : s.id = id]

MetadataPool ==
    {EmptyMap,
     [k \in {"authors"} |-> VString("a")],
     [k \in {"authors", "checked"} |-> IF k = "authors" THEN VInteger(1) ELSE VNone],
     [k \in {"ratio"} |-> VFloat("NaN")]}

Models ==
    {Model(V10, ShapeMap(S), md) :
        S \in UNION {{T \in SubsetsUpTo(ShapeTemplates(p.shape, p.member), MaxShapes) :
                        DistinctIds(T)} : p \in TraitPlacements},
        md \in MetadataPool}

(***************************************************************************)
(* One call of ModelWriter::write of a JsonWriter on a Model.              *)
(***************************************************************************)
InitWrite ==
    /\ ValueIdle /\ IoIdle /\ AddIdle /\ ParIdle /\ RunIdle /\ VerIdle
    /\ model \in Models
    /\ pretty_print \in BOOLEAN
    /\ sink_fails \in BOOLEAN
    /\ wpc = "call"
    /\ wresult = NotCalled

Write ==
    /\ wpc = "call"
    /\ wresult' = write(pretty_print, sink_fails, model)
    /\ wpc' = "done"
    /\ UNCHANGED <<model, pretty_print, sink_fails, valueVars, ioVars, addVars, parVars, runVars, verVars>>

NextWrite == Write

SpecWrite == InitWrite /\ [][NextWrite]_vars

(***************************************************************************)
(* io::read_model_from_string and io::write_model_to_string, over any      *)
(* ModelReader and any ModelWriter.                                        *)
(***************************************************************************)
MaxBytes == 3
MaxChunk == 2

\* 'A', the two bytes of U+00E9, and a byte no UTF-8 text holds.
BytePool == {65, 195, 169, 255}
ByteSeqs == SeqsUpTo(BytePool, MaxBytes)

\* std::io::Cursor::new: the position starts at the first byte.
CursorNew(bytes) == [bytes |-> bytes, pos |-> 0]

\* Read for Cursor: up to n bytes from the position, which advances by them.
CursorRead(c, n) ==
    LET k == IF Len(c.bytes) - c.pos < n THEN Len(c.bytes) - c.pos ELSE n
    IN  [got |-> SubSeq(c.bytes, c.pos + 1, c.pos + k),
         cursor |-> [c EXCEPT !.pos = c.pos + k]]

\* Write for Cursor<Vec<u8>>: the bytes go in at the position, the vector grows.
CursorWrite(c, chunk) ==
    [bytes |-> SubSeq(c.bytes, 1, c.pos) \o chunk
                 \o SubSeq(c.bytes, c.pos + Len(chunk) + 1, Len(c.bytes)),
     pos |-> c.pos + Len(chunk)]

IsContinuation(b) == b \in 128..191

\* core::str::from_utf8's validation.
RECURSIVE ValidUtf8From(_, _)
ValidUtf8From(b, i) ==
    IF i > Len(b) THEN TRUE
    ELSE LET c == b[i]
             has(n) == i + n <= Len(b)
         IN  CASE c < 128 -> ValidUtf8From(b, i + 1)
               [] c \in 194..223 ->
                    has(1) /\ IsContinuation(b[i + 1]) /\ ValidUtf8From(b, i + 2)
               [] c \in 224..239 ->
                    /\ has(2)
                    /\ IsContinuation(b[i + 1]) /\ IsContinuation(b[i + 2])
                    /\ (c = 224 => b[i + 1] >= 160)
                    /\ (c = 237 => b[i + 1] <= 159)
                    /\ ValidUtf8From(b, i + 3)
               [] c \in 240..244 ->
                    /\ has(3)
                    /\ IsContinuation(b[i + 1]) /\ IsContinuation(b[i + 2])
                    /\ IsContinuation(b[i + 3])
                    /\ (c = 240 => b[i + 1] >= 144)
                    /\ (c = 244 => b[i + 1] <= 143)
                    /\ ValidUtf8From(b, i + 4)
               [] OTHER -> FALSE

\* String::from_utf8: the String of these bytes, or the error.
from_utf8(bytes) ==
    IF ValidUtf8From(bytes, 1) THEN [ok |-> TRUE, string |-> [utf8 |-> bytes]]
    ELSE [ok |-> FALSE]

\* Result<T> of the crate's error module.
Ok(x) == [status |-> "Ok", v |-> x]
Err(e) == [status |-> "Err", e |-> e]
Panicked == [status |-> "Panic"]

ReaderErrors == {"Deserialization"}
WriterErrors == {"Serialization"}
IoModels == {Model(V10, ShapeMap({}), EmptyMap), Model(V10, ShapeMap({ExDate}), EmptyMap)}

InitIo ==
    /\ ValueIdle /\ WriteIdle /\ AddIdle /\ ParIdle /\ RunIdle /\ VerIdle
    /\ io_seen = <<>> /\ io_eof = FALSE /\ io_calls = 0
    /\ io_inner = NotCalled /\ io_result = NotCalled
    /\ io_buffer = [bytes |-> <<>>, pos |-> 0]
    /\ \/ io_pc = "read_model_from_string" /\ io_s \in ByteSeqs /\ ModelIdle
       \/ io_pc = "write_model_to_string" /\ io_s = <<>> /\ model \in IoModels

\* read_model_from_string: the Cursor over s, and the call r.read(&mut buffer).
ReadFromStringCall ==
    /\ io_pc = "read_model_from_string"
    /\ io_buffer' = CursorNew(io_s)
    /\ io_calls' = io_calls + 1
    /\ io_pc' = "reader"
    /\ UNCHANGED <<io_s, io_seen, io_eof, io_inner, io_result, model, valueVars, writeVars, addVars, parVars, runVars, verVars>>

\* The reader reads up to n bytes of the stream it was handed.
ReaderReads ==
    /\ io_pc = "reader"
    /\ \E n \in 1..MaxChunk :
        LET r == CursorRead(io_buffer, n)
        IN  /\ io_buffer' = r.cursor
            /\ io_seen' = io_seen \o r.got
            /\ io_eof' = (io_eof \/ r.got = <<>>)
    /\ UNCHANGED <<io_pc, io_s, io_calls, io_inner, io_result, model, valueVars, writeVars, addVars, parVars, runVars, verVars>>

\* The reader's read returns a Model or an error.
ReaderReturns ==
    /\ io_pc = "reader"
    /\ io_inner' \in {Ok(m) : m \in IoModels} \cup {Err(e) : e \in ReaderErrors}
    /\ io_pc' = "reader_returned"
    /\ UNCHANGED <<io_s, io_buffer, io_seen, io_eof, io_calls, io_result, model, valueVars, writeVars, addVars, parVars, runVars, verVars>>

\* read_model_from_string ends with the value of r.read(&mut buffer).
ReadFromStringResultDropsError(inner) ==
    IF inner.status = "Err" THEN Ok(Model(V10, ShapeMap({}), EmptyMap)) ELSE inner
ReadFromStringResult(inner) == inner

ReadFromStringReturn ==
    /\ io_pc = "reader_returned"
    /\ io_result' = ReadFromStringResult(io_inner)
    /\ io_pc' = "read_done"
    /\ UNCHANGED <<io_s, io_buffer, io_seen, io_eof, io_calls, io_inner, model, valueVars, writeVars, addVars, parVars, runVars, verVars>>

\* write_model_to_string: the empty Cursor, and the call w.write(&mut buffer, model).
WriteToStringCall ==
    /\ io_pc = "write_model_to_string"
    /\ io_buffer' = CursorNew(<<>>)
    /\ io_calls' = io_calls + 1
    /\ io_pc' = "writer"
    /\ UNCHANGED <<io_s, io_seen, io_eof, io_inner, io_result, model, valueVars, writeVars, addVars, parVars, runVars, verVars>>

\* The writer writes some bytes to the stream it was handed.
WriterWrites ==
    /\ io_pc = "writer"
    /\ \E chunk \in SeqsUpTo(BytePool, MaxChunk) :
        /\ chunk # <<>>
        /\ Len(io_buffer.bytes) + Len(chunk) <= MaxBytes
        /\ io_buffer' = CursorWrite(io_buffer, chunk)
    /\ UNCHANGED <<io_pc, io_s, io_seen, io_eof, io_calls, io_inner, io_result, model, valueVars, writeVars, addVars, parVars, runVars, verVars>>

\* The writer's write returns Ok(()) or an error.
WriterReturns ==
    /\ io_pc = "writer"
    /\ io_inner' \in {Ok("unit")} \cup {Err(e) : e \in WriterErrors}
    /\ io_pc' = "writer_returned"
    /\ UNCHANGED <<io_s, io_buffer, io_seen, io_eof, io_calls, io_result, model, valueVars, writeVars, addVars, parVars, runVars, verVars>>

\* write_model_to_string: `?` on the writer's result, then
\* Ok(String::from_utf8(buffer.into_inner()).unwrap()).
WriteToStringResult(inner, buffer) ==
    IF inner.status = "Err" THEN inner
    ELSE LET r == from_utf8(buffer.bytes)
         IN  IF r.ok THEN Ok(r.string) ELSE Panicked

WriteToStringReturn ==
    /\ io_pc = "writer_returned"
    /\ io_result' = WriteToStringResult(io_inner, io_buffer)
    /\ io_pc' = "write_done"
    /\ UNCHANGED <<io_s, io_buffer, io_seen, io_eof, io_calls, io_inner, model, valueVars, writeVars, addVars, parVars, runVars, verVars>>

NextIo ==
    \/ ReadFromStringCall \/ ReaderReads \/ ReaderReturns \/ ReadFromStringReturn
    \/ WriteToStringCall \/ WriterWrites \/ WriterReturns \/ WriteToStringReturn

SpecIo == InitIo /\ [][NextIo]_vars

(***************************************************************************)
(* Model::new, TopLevelShape::apply_trait and Model::add_shape, and the    *)
(* add_shape calls of the crate's semantic-model example.                  *)
(***************************************************************************)
MaxCalls == 3

ModelNew(version) == Model(version, ShapeMap({}), EmptyMap)

\* apply_trait: a trait of a ShapeID already applied is replaced.
apply_trait_keep_first(ts, t) ==
    IF \E i \in DOMAIN ts : ts[i].id = t.id THEN ts ELSE Append(ts, t)
apply_trait(ts, t) ==
    IF \E i \in DOMAIN ts : ts[i].id = t.id
    THEN [i \in DOMAIN ts |-> IF ts[i].id = t.id THEN t ELSE ts[i]]
    ELSE Append(ts, t)

RECURSIVE merge_traits(_, _, _)
merge_traits(ts, new, i) ==
    IF i > Len(new) THEN ts ELSE merge_traits(apply_trait(ts, new[i]), new, i + 1)

ShapeIDConflict == "ShapeIDConflict"

\* add_shape: inserts a shape of a new ShapeID; merges the traits into the
\* shape already present when the bodies are the same or one of the two is the
\* Unresolved placeholder, which has no body; fails otherwise.
add_shape(m, s) ==
    IF s.id \notin DOMAIN m.shapes
    THEN [model |-> [m EXCEPT !.shapes = ShapeMap({m.shapes[id] : id \in DOMAIN m.shapes} \cup {s})],
          result |-> Ok("unit")]
    ELSE LET old == m.shapes[s.id]
             merged(body) == TopLevelShape(s.id, merge_traits(old.traits, s.traits, 1), body)
         IN  IF old.body = s.body \/ s.body = Unresolved
             THEN [model |-> [m EXCEPT !.shapes[s.id] = merged(old.body)],
                   result |-> Ok("unit")]
             ELSE IF old.body = Unresolved
             THEN [model |-> [m EXCEPT !.shapes[s.id] = merged(s.body)],
                   result |-> Ok("unit")]
             ELSE [model |-> m, result |-> Err(ShapeIDConflict)]

\* lib.rs, the example: model.add_shape(message); ... model.add_shape(error);
ExampleAddShapeCalls == <<ExMessage, ExDate, ExGetMessage, ExInput, ExOutput, ExError>>

UniqueTraitSeqs ==
    {<<>>,
     <<AppliedTrait(Prelude("documentation"), SomeOpt(VInteger(1)))>>,
     <<AppliedTrait(Prelude("documentation"), SomeOpt(VInteger(2)))>>,
     <<AppliedTrait(Prelude("required"), NoneOpt),
       AppliedTrait(Prelude("documentation"), SomeOpt(VInteger(1)))>>}

AddBodies == {Simple("string"), Structure(<<>>), Unresolved}
AddIds == {Motd("Date"), Motd("Message")}
AddPool == {TopLevelShape(id, ts, b) : id \in AddIds, ts \in UniqueTraitSeqs, b \in AddBodies}

InitAdd ==
    /\ ValueIdle /\ WriteIdle /\ IoIdle /\ ParIdle /\ RunIdle /\ VerIdle
    /\ model = ModelNew(V10)
    /\ am_mode \in {"example", "free"}
    /\ am_pc = 0 /\ am_arg = NotCalled /\ am_before = <<>>
    /\ am_last = NotCalled /\ am_added = {}

AddShapeCall(s) ==
    LET r == add_shape(model, s)
    IN  /\ model' = r.model
        /\ am_arg' = s
        /\ am_before' = model.shapes
        /\ am_last' = r.result
        /\ am_added' = IF r.result.status = "Ok" THEN am_added \cup {s.id} ELSE am_added
        /\ am_pc' = am_pc + 1
        /\ UNCHANGED <<am_mode, valueVars, writeVars, ioVars, parVars, runVars, verVars>>

\* The next add_shape call of the example.
ExampleAddShape ==
    /\ am_mode = "example"
    /\ am_pc < Len(ExampleAddShapeCalls)
    /\ AddShapeCall(ExampleAddShapeCalls[am_pc + 1])

\* Any add_shape call on the Model.
AddShape ==
    /\ am_mode = "free"
    /\ am_pc < MaxCalls
    /\ \E s \in AddPool : AddShapeCall(s)

NextAdd == ExampleAddShape \/ AddShape

SpecAdd == InitAdd /\ [][NextAdd]_vars

(***************************************************************************)
(* Two calls of ModelWriter::write of two JsonWriters, each with its own   *)
(* output, interleaved over one Model.                                     *)
(***************************************************************************)
Writers == {1, 2}

ParTemplates(ts) ==
    {TopLevelShape(Motd("Date"), ts, Simple("string")),
     TopLevelShape(Motd("Dates"), ts, ListOf(Member("Dates", "member", <<>>, Motd("Date")))),
     TopLevelShape(Motd("GetMessageInput"), <<>>,
                   Structure(<<Member("GetMessageInput", "date", ts, Motd("Date"))>>)),
     TopLevelShape(Motd("Applied"), ts, Unresolved)}

ParTraitSeqs ==
    {<<AppliedTrait(Prelude("required"), NoneOpt)>>,
     <<AppliedTrait(Prelude("documentation"), SomeOpt(VFloat("NaN")))>>}

ParMetadataPool == {EmptyMap, [k \in {"authors"} |-> VString("a")]}

ParModels ==
    {Model(V10, ShapeMap(S), md) :
        S \in UNION {SubsetsUpTo(ParTemplates(ts), MaxShapes) : ts \in ParTraitSeqs},
        md \in ParMetadataPool}

\* model.shapes(): a fresh iteration over all the shapes of the Model.
ShapesIterOnce(m) ==
    IF \E v \in DOMAIN par_pc : par_pc[v] # "write" THEN {} ELSE DOMAIN m.shapes
ShapesIter(m) == DOMAIN m.shapes

InitPar ==
    /\ ValueIdle /\ WriteIdle /\ IoIdle /\ AddIdle /\ RunIdle /\ VerIdle
    /\ model \in ParModels
    /\ par_model = model
    /\ par_writer \in [Writers -> [pretty_print : BOOLEAN, w_fails : BOOLEAN]]
    /\ par_pc = [w \in Writers |-> "write"]
    /\ par_iter = [w \in Writers |-> {}]
    /\ par_map = [w \in Writers |-> NewMap]
    /\ par_result = [w \in Writers |-> NotCalled]

ParFrame ==
    UNCHANGED <<model, par_model, par_writer, valueVars, writeVars, ioVars, addVars,
                runVars, verVars>>

\* write enters shapes: the empty shape_map and the iteration over the shapes.
ParEnterShapes(w) ==
    /\ par_pc[w] = "write"
    /\ par_iter' = [par_iter EXCEPT ![w] = ShapesIter(model)]
    /\ par_map' = [par_map EXCEPT ![w] = NewMap]
    /\ par_pc' = [par_pc EXCEPT ![w] = "shapes"]
    /\ UNCHANGED par_result
    /\ ParFrame

\* One turn of the loop over the shapes; a panic of the translation ends the call.
ParShape(w) ==
    /\ par_pc[w] = "shapes"
    /\ \E id \in par_iter[w] :
        LET b == Put(par_map[w], ShapeIdToString(id), shape(model.shapes[id]))
        IN  /\ par_iter' = [par_iter EXCEPT ![w] = par_iter[w] \ {id}]
            /\ par_map' = [par_map EXCEPT ![w] = b]
            /\ par_pc' = [par_pc EXCEPT ![w] = IF b.panic THEN "done" ELSE "shapes"]
            /\ par_result' = [par_result EXCEPT ![w] = IF b.panic THEN WritePanic ELSE @]
    /\ ParFrame

\* The loop is over: the metadata, when the Model has any.
ParMetadata(w) ==
    /\ par_pc[w] = "shapes"
    /\ par_iter[w] = {}
    /\ LET b == PutIf(has_metadata(model), par_map[w], K_METADATA, metadata_object(model))
       IN  /\ par_map' = [par_map EXCEPT ![w] = b]
           /\ par_pc' = [par_pc EXCEPT ![w] = IF b.panic THEN "done" ELSE "serialize"]
           /\ par_result' = [par_result EXCEPT ![w] = IF b.panic THEN WritePanic ELSE @]
    /\ UNCHANGED par_iter
    /\ ParFrame

\* top holds the version and the shapes object and goes to the writer's own w.
ParSerialize(w) ==
    /\ par_pc[w] = "serialize"
    /\ LET top == Built(Put(Put(NewMap, K_SMITHY,
                                JString(VersionToString(model.smithy_version))),
                            K_SHAPES, Built(par_map[w])))
       IN  par_result' = [par_result EXCEPT ![w] =
                            IF par_writer[w].w_fails THEN WriteErr
                            ELSE WriteOk(par_writer[w].pretty_print, top)]
    /\ par_pc' = [par_pc EXCEPT ![w] = "done"]
    /\ UNCHANGED <<par_iter, par_map>>
    /\ ParFrame

NextPar ==
    \E w \in Writers :
        ParEnterShapes(w) \/ ParShape(w) \/ ParMetadata(w) \/ ParSerialize(w)

SpecPar == InitPar /\ [][NextPar]_vars

(***************************************************************************)
(* The trait ModelWriter and its implementations: the items the trait      *)
(* requires of an implementation, and the items each impl block declares.  *)
(***************************************************************************)
ModelWriterItems == {"REPRESENTATION", "write"}

DebuggerImpl ==
    [name |-> "Debugger",
     consts |-> [c \in {"REPRESENTATION"} |-> "Debug"],
     fns |-> {"write"}]

JsonWriterImpl ==
    [name |-> "JsonWriter",
     consts |-> [c \in {} |-> ""],
     fns |-> {"write"}]

WriterImpls == {DebuggerImpl, JsonWriterImpl}

ImplItems(impl) == DOMAIN impl.consts \cup impl.fns

\* <W as ModelWriter>::REPRESENTATION, where the impl declares it.
REPRESENTATION(impl) ==
    IF "REPRESENTATION" \in DOMAIN impl.consts
    THEN SomeOpt(impl.consts["REPRESENTATION"])
    ELSE NoneOpt

(***************************************************************************)
(* The validation Action framework (crate::action).  An Action is a pass   *)
(* over the completed Model that yields Findings or fails; the Model of a  *)
(* run does not change, so an Action is given by what it yields on it.     *)
(* A run is Idle -> Running(action i of n) -> Idle.                        *)
(***************************************************************************)
Severity == {"Info", "Warning", "Error"}
Finding(severity, shape_id, message, code) ==
    [severity |-> severity, shape |-> shape_id, message |-> message, code |-> code]
ActionFailure == [t |-> "ActionFailure"]

FindingPool == {Finding(sv, NoneOpt, "finding", "code") : sv \in Severity}
ActionOutcomes ==
    {Ok(fs) : fs \in SeqsUpTo(FindingPool, MaxFindings)} \cup {Err(ActionFailure)}
ActionLists == SeqsUpTo(ActionOutcomes, MaxActions)

\* A run that stops at the first Finding of Error severity.
run_action_fail_fast(collected, outcome) ==
    IF outcome.status = "Err" \/ \E k \in DOMAIN outcome.v : outcome.v[k].severity = "Error"
    THEN Err(ActionFailure)
    ELSE Ok(collected \o outcome.v)

\* One Action of the run: its Findings are appended to those collected so
\* far; its failure aborts the run with the framework-level error.
run_action(collected, outcome) ==
    IF outcome.status = "Err"
    THEN Err(ActionFailure)
    ELSE Ok(collected \o outcome.v)

InitRun ==
    /\ ValueIdle /\ ModelIdle /\ WriteIdle /\ IoIdle /\ AddIdle /\ ParIdle /\ VerIdle
    /\ run_pc = "Idle" /\ run_i = 0
    /\ run_actions \in ActionLists
    /\ run_findings = <<>> /\ run_result = NotCalled

RunFrame == UNCHANGED <<run_actions, model, valueVars, writeVars, ioVars, addVars, parVars, verVars>>

RunStart ==
    /\ run_pc = "Idle" /\ run_result = NotCalled
    /\ IF run_actions = <<>>
       THEN /\ run_result' = Ok(<<>>)
            /\ UNCHANGED <<run_pc, run_i>>
       ELSE /\ run_pc' = "Running" /\ run_i' = 1
            /\ UNCHANGED run_result
    /\ UNCHANGED run_findings
    /\ RunFrame

RunAction ==
    /\ run_pc = "Running"
    /\ LET step == run_action(run_findings, run_actions[run_i]) IN
       IF step.status = "Ok" /\ run_i < Len(run_actions)
       THEN /\ run_findings' = step.v
            /\ run_i' = run_i + 1
            /\ UNCHANGED <<run_pc, run_result>>
       ELSE /\ run_result' = step
            /\ run_pc' = "Idle" /\ run_i' = 0 /\ run_findings' = <<>>
    /\ RunFrame

NextRun == RunStart \/ RunAction

SpecRun == InitRun /\ [][NextRun]_vars /\ WF_vars(NextRun)

(***************************************************************************)
(* Version: Default, Display, FromStr and Version::current, called on any  *)
(* string over a few characters.                                           *)
(***************************************************************************)
MaxVersionLen == 3
VersionChars == {"1", ".", "0", "2"}

RECURSIVE Concat(_)
Concat(q) == IF q = <<>> THEN "" ELSE Head(q) \o Concat(Tail(q))
VersionStrings == {Concat(q) : q \in SeqsUpTo(VersionChars, MaxVersionLen)}

Versions == {V10}
InvalidVersionNumber(s) == [kind |-> "InvalidVersionNumber", arg |-> s]

current == V10
default == current

\* A parse that takes the major number alone for the version as well.
from_str_lenient(s) ==
    IF s \in {"1.0", "1"}
    THEN Ok(V10)
    ELSE Err(InvalidVersionNumber(s))

from_str(s) ==
    IF s = "1.0"
    THEN Ok(V10)
    ELSE Err(InvalidVersionNumber(s))

InitVersion ==
    /\ ValueIdle /\ ModelIdle /\ WriteIdle /\ IoIdle /\ AddIdle /\ ParIdle /\ RunIdle
    /\ ver_pc = "start"
    /\ ver_s \in VersionStrings
    /\ ver_v = NoVersion /\ ver_result = NotCalled

VersionFrame == UNCHANGED <<model, valueVars, writeVars, ioVars, addVars, parVars, runVars>>

\* s.parse::<Version>() on the string at hand.
VersionFromStr ==
    /\ ver_pc \in {"start", "shown"}
    /\ ver_result' = from_str(ver_s)
    /\ ver_pc' = IF ver_pc = "start" THEN "parsed" ELSE "reparsed"
    /\ ver_v' = IF ver_pc = "start" /\ from_str(ver_s).status = "Ok"
                THEN from_str(ver_s).v ELSE ver_v
    /\ UNCHANGED ver_s
    /\ VersionFrame

VersionDefault ==
    /\ ver_pc = "start"
    /\ ver_v' = default
    /\ ver_pc' = "default"
    /\ UNCHANGED <<ver_s, ver_result>>
    /\ VersionFrame

VersionCurrent ==
    /\ ver_pc = "start"
    /\ ver_v' = current
    /\ ver_pc' = "current"
    /\ UNCHANGED <<ver_s, ver_result>>
    /\ VersionFrame

\* v.to_string() on the Version at hand.
VersionDisplay ==
    /\ ver_pc \in {"default", "current", "parsed"}
    /\ ver_v \in Versions
    /\ ver_s' = VersionToString(ver_v)
    /\ ver_result' = NotCalled
    /\ ver_pc' = "shown"
    /\ UNCHANGED ver_v
    /\ VersionFrame

NextVersion == VersionFromStr \/ VersionDefault \/ VersionCurrent \/ VersionDisplay

SpecVersion == InitVersion /\ [][NextVersion]_vars

(***************************************************************************)
(* Claims about JsonWriter::value and JsonWriter::traits.                  *)
(***************************************************************************)
RECURSIVE IsJsonValue(_)
IsJsonValue(j) ==
    CASE j.t \in {"null", "bool", "num", "str"} -> TRUE
      [] j.t = "arr" -> \A i \in DOMAIN j.a : IsJsonValue(j.a[i])
      [] j.t = "obj" -> \A k \in DOMAIN j.o : IsJsonValue(j.o[k])
      [] OTHER -> FALSE

\* C6: every variant of Value (None, Boolean, Number with Integer and Float
\* distinct, String, TextBlock, ShapeID, Array, Object) is translated to a JSON
\* value: an Array to an array of the translations of its elements in the same
\* order, an Object to an object with the same keys and translated values.
C6_EveryVariantTranslated ==
    (fnpc = "value_done" /\ val.tag \in NodeValueVariants) =>
        /\ IsJsonValue(ret)
        /\ val.tag = "Array" =>
                /\ ret.t = "arr" /\ DOMAIN ret.a = DOMAIN val.a
                /\ \A i \in DOMAIN val.a : ret.a[i] = value(val.a[i])
        /\ val.tag = "Object" =>
                /\ ret.t = "obj" /\ DOMAIN ret.o = DOMAIN val.o
                /\ \A k \in DOMAIN val.o : ret.o[k] = value(val.o[k])
        /\ val.tag = "Number" =>
                /\ ret.t = "num"
                /\ (ret.n.kind = "i64") <=> (val.num.kind = "Integer")

\* A Float that is not finite was handed to value: the call panicked.
C6_FloatNotTranslated ==
    fnpc = "value_done" /\ val = VFloat("NaN") /\ IsPanic(ret)

LastWithId(ts, i) == \A j \in DOMAIN ts : j > i => ts[j].id # ts[i].id

\* C9: the traits object written for a traits sequence has exactly one entry per
\* distinct trait ShapeID of the sequence, carrying the value of the trait of
\* that ShapeID applied last; no object is written exactly when the translation
\* of one of the values does not return.
C9_OneEntryPerTraitIdLastWins ==
    fnpc = "traits_done" =>
        IF \E i \in DOMAIN tseq : IsPanic(TraitJson(tseq[i]))
        THEN IsPanic(ret)
        ELSE /\ ret.t = "obj"
             /\ DOMAIN ret.o = {ShapeIdToString(tseq[i].id) : i \in DOMAIN tseq}
             /\ Cardinality(DOMAIN ret.o) = Cardinality({tseq[i].id : i \in DOMAIN tseq})
             /\ \A i \in DOMAIN tseq :
                    LastWithId(tseq, i) =>
                        ret.o[ShapeIdToString(tseq[i].id)] = TraitJson(tseq[i])

\* A traits object was written for two traits of one ShapeID with different values.
C9_Witness ==
    /\ fnpc = "traits_done" /\ ret.t = "obj"
    /\ Len(tseq) = 2 /\ tseq[1].id = tseq[2].id
    /\ TraitJson(tseq[1]) # TraitJson(tseq[2])
    /\ Cardinality(DOMAIN ret.o) = 1

(***************************************************************************)
(* Claims about ModelWriter::write of JsonWriter.                          *)
(***************************************************************************)
WrittenShapes == wresult.doc.o[K_SHAPES].o

\* The traits of a sequence that are in force: for each trait ShapeID the one
\* applied last.
TraitsWrittenIn(ts, obj) ==
    \A i \in DOMAIN ts :
        LastWithId(ts, i) =>
            /\ obj.t = "obj"
            /\ K_TRAITS \in DOMAIN obj.o
            /\ obj.o[K_TRAITS].t = "obj"
            /\ ShapeIdToString(ts[i].id) \in DOMAIN obj.o[K_TRAITS].o
            /\ obj.o[K_TRAITS].o[ShapeIdToString(ts[i].id)] = TraitJson(ts[i])

\* The members of a shape, each with the JSON value written for it.
WrittenMembers(s, sj) ==
    CASE s.body.kind \in {"List", "Set"} ->
            {[member |-> s.body.member, json |-> sj.o[K_MEMBER]]}
      [] s.body.kind = "Map" ->
            {[member |-> s.body.key, json |-> sj.o[K_KEY]],
             [member |-> s.body.value, json |-> sj.o[K_VALUE]]}
      [] s.body.kind \in {"Structure", "Union"} ->
            {[member |-> s.body.members[i],
              json |-> sj.o[K_MEMBERS].o[ShapeIdToString(s.body.members[i].id)]] :
                i \in DOMAIN s.body.members}
      [] OTHER -> {}

\* C1: the output of write contains every trait it is given: each trait of a
\* top-level shape and each trait of a member of a shape (of a Structure or
\* Union, the member of a List or Set, the key and value of a Map) is written
\* with its trait ShapeID and its value.
C1_EveryTraitWritten ==
    (wpc = "done" /\ wresult.status = "Ok") =>
        \A id \in DOMAIN model.shapes :
            LET s == model.shapes[id]
                sj == WrittenShapes[ShapeIdToString(id)]
            IN  /\ TraitsWrittenIn(s.traits, sj)
                /\ \A mj \in WrittenMembers(s, sj) :
                        TraitsWrittenIn(mj.member.traits, mj.json)

\* A List whose member carries a trait was written, and the trait was not.
C1_ListMemberTraitDropped ==
    /\ wpc = "done" /\ wresult.status = "Ok"
    /\ \E id \in DOMAIN model.shapes :
            /\ model.shapes[id].body.kind = "List"
            /\ has_traits(model.shapes[id].body.member)
            /\ DOMAIN WrittenShapes[ShapeIdToString(id)].o[K_MEMBER].o = {K_TARGET}

\* C2: the output of write reproduces the model's metadata: the document has a
\* metadata entry exactly when the model has metadata, it holds every metadata
\* key of the model once with the translation of its value, and no other entry
\* of the output is a metadata entry.
C2_MetadataReproduced ==
    (wpc = "done" /\ wresult.status = "Ok") =>
        /\ has_metadata(model) <=> K_METADATA \in DOMAIN wresult.doc.o
        /\ has_metadata(model) =>
                /\ wresult.doc.o[K_METADATA].t = "obj"
                /\ DOMAIN wresult.doc.o[K_METADATA].o = DOMAIN model.metadata
                /\ \A k \in DOMAIN model.metadata :
                        wresult.doc.o[K_METADATA].o[k] = value(model.metadata[k])
        /\ ~has_metadata(model) => K_METADATA \notin DOMAIN WrittenShapes

\* The metadata of the model was written as an entry of the shapes object, and
\* the document itself has no metadata entry.
C2_MetadataAmongShapes ==
    /\ wpc = "done" /\ wresult.status = "Ok" /\ has_metadata(model)
    /\ DOMAIN wresult.doc.o = {K_SMITHY, K_SHAPES}
    /\ K_METADATA \in DOMAIN WrittenShapes
    /\ DOMAIN WrittenShapes[K_METADATA].o = DOMAIN model.metadata

\* C3: write always returns an explicit result: whatever Values the traits and
\* the metadata of the Model hold, the call ends with Ok or with an Err value,
\* never with a panic.
C3_WriteReturnsResult ==
    wpc = "done" => wresult.status \in {"Ok", "Err"}

\* The only Value of the Model is a trait value Float(NaN), and write panicked.
C3_PanicOnNaNTrait ==
    /\ wpc = "done" /\ wresult.status = "Panic"
    /\ ~has_metadata(model)
    /\ \E id \in DOMAIN model.shapes :
            model.shapes[id].traits =
                <<AppliedTrait(Prelude("documentation"), SomeOpt(VFloat("NaN")))>>

(***************************************************************************)
(* Claims about the helpers of io.                                         *)
(***************************************************************************)
\* C4: write_model_to_string returns the writer's error when the writer's
\* write fails, and otherwise Ok with a string of exactly the bytes the writer
\* wrote, in order; it has no failure of its own, whatever the bytes.
C4_WriteToStringPureWrapper ==
    io_pc = "write_done" =>
        /\ io_inner.status = "Err" => io_result = io_inner
        /\ io_inner.status = "Ok" =>
                /\ io_result.status = "Ok"
                /\ io_result.v.utf8 = io_buffer.bytes

\* The writer wrote the single byte 0xFF and returned Ok, and the helper panicked.
C4_PanicOnInvalidUtf8 ==
    /\ io_pc = "write_done" /\ io_inner.status = "Ok"
    /\ io_buffer.bytes = <<255>> /\ io_result.status = "Panic"

\* C5: read_model_from_string calls the reader's read exactly once, on a stream
\* that yields exactly the bytes of s from the first byte (what the reader has
\* been given is the start of s, and all of s once the stream reported its end),
\* and returns exactly what that call returned.
C5_ReadFromStringPureWrapper ==
    /\ io_pc \in {"reader", "reader_returned", "read_done"} =>
            /\ io_calls = 1
            /\ io_seen = SubSeq(io_s, 1, Len(io_seen))
            /\ io_eof => io_seen = io_s
    /\ io_pc = "read_done" => io_result = io_inner

\* The reader read all of a three-byte s to its end, failed, and the helper
\* returned that error.
C5_Witness ==
    /\ io_pc = "read_done" /\ Len(io_s) = MaxBytes /\ io_eof
    /\ io_seen = io_s /\ io_inner.status = "Err" /\ io_result = io_inner

(***************************************************************************)
(* Claims about the Model: the example of the crate and add_shape.         *)
(***************************************************************************)
\* The ShapeIDs a shape refers to.
OptRefs(o) == IF o.some THEN {o.v} ELSE {}
SeqRefs(q) == {q[i] : i \in DOMAIN q}
ShapeRefs(s) ==
    LET b == s.body
    IN  CASE b.kind \in {"List", "Set"} -> {b.member.target}
          [] b.kind = "Map" -> {b.key.target, b.value.target}
          [] b.kind \in {"Structure", "Union"} -> {b.members[i].target : i \in DOMAIN b.members}
          [] b.kind = "Service" -> SeqRefs(b.operations) \cup SeqRefs(b.resources)
          [] b.kind = "Operation" -> OptRefs(b.input) \cup OptRefs(b.output) \cup SeqRefs(b.errors)
          [] b.kind = "Resource" ->
                {b.identifiers[k] : k \in DOMAIN b.identifiers}
                    \cup UNION {OptRefs(b.lifecycle[f]) : f \in DOMAIN b.lifecycle}
                    \cup SeqRefs(b.operations) \cup SeqRefs(b.collection_operations)
                    \cup SeqRefs(b.resources)
          [] OTHER -> {}

\* The shapes of the example the service reaches: itself, its resource, and
\* every shape of the namespace these refer to.
RECURSIVE ReachedFrom(_, _)
ReachedFrom(S, n) ==
    IF n = 0 THEN S
    ELSE ReachedFrom(S \cup {t \in ExampleShapes : \E r \in S : t.id \in ShapeRefs(r)}, n - 1)

ServiceShapes == ReachedFrom({ExService}, Cardinality(ExampleShapes))

ExampleDone == am_mode = "example" /\ am_pc = Len(ExampleAddShapeCalls)

\* C7: after the add_shape calls of the example the Model contains the service
\* shape example.motd#MessageOfTheDay, its resource Message and every shape of
\* the namespace example.motd these refer to.
C7_ExampleModelHoldsService ==
    ExampleDone =>
        /\ ExMessage \in ServiceShapes
        /\ \A s \in ServiceShapes :
                s.id \in DOMAIN model.shapes /\ model.shapes[s.id] = s

\* The example has run: every shape the service reaches is in the Model, and
\* the service is not.
C7_ServiceNeverAdded ==
    /\ ExampleDone
    /\ \A s \in ServiceShapes \ {ExService} : s.id \in DOMAIN model.shapes
    /\ ExService.id \notin DOMAIN model.shapes

TraitIdsOf(ts) == {ts[i].id : i \in DOMAIN ts}
TraitIndexOf(ts, id) == (CHOOSE i \in DOMAIN ts : ts[i].id = id)
HasBody(b) == b # Unresolved

\* C8: after any sequence of add_shape calls: a shape whose ShapeID is present
\* with a different body fails with ShapeIDConflict and leaves the Model
\* unchanged (a body is a resolved ShapeKind: the Unresolved placeholder has
\* none, and a call where the shape present or the shape added is Unresolved
\* merges, keeping the body there is); a shape that differs from the one
\* present only in traits succeeds and the stored shape holds the union of both
\* trait sets, the later value winning for a trait ID of both; no shape that
\* was added is ever dropped.
C8_AddShapeConflictMergeNoDrop ==
    /\ am_added \subseteq DOMAIN model.shapes
    /\ DOMAIN am_before \subseteq DOMAIN model.shapes
    /\ (am_mode = "free" /\ am_pc > 0 /\ am_arg.id \in DOMAIN am_before) =>
        LET old == am_before[am_arg.id]
            new == model.shapes[am_arg.id]
        IN  IF HasBody(old.body) /\ HasBody(am_arg.body) /\ old.body # am_arg.body
            THEN am_last = Err(ShapeIDConflict) /\ model.shapes = am_before
            ELSE /\ am_last.status = "Ok"
                 /\ new.id = am_arg.id
                 /\ new.body = (IF HasBody(old.body) THEN old.body ELSE am_arg.body)
                 /\ TraitIdsOf(new.traits) = TraitIdsOf(old.traits) \cup TraitIdsOf(am_arg.traits)
                 /\ Cardinality(TraitIdsOf(new.traits)) = Len(new.traits)
                 /\ \A i \in DOMAIN new.traits :
                        LET id == new.traits[i].id
                        IN  new.traits[i] =
                                IF id \in TraitIdsOf(am_arg.traits)
                                THEN am_arg.traits[TraitIndexOf(am_arg.traits, id)]
                                ELSE old.traits[TraitIndexOf(old.traits, id)]
                 /\ \A id \in DOMAIN am_before \ {am_arg.id} :
                        model.shapes[id] = am_before[id]

\* A shape was added whose ShapeID was present with the same body and another
\* value of the same trait, and the stored shape holds the later value.
C8_Witness ==
    /\ am_mode = "free" /\ am_pc > 1 /\ am_last.status = "Ok"
    /\ am_arg.id \in DOMAIN am_before
    /\ am_before[am_arg.id].body = am_arg.body
    /\ am_before[am_arg.id].traits =
            <<AppliedTrait(Prelude("required"), NoneOpt),
              AppliedTrait(Prelude("documentation"), SomeOpt(VInteger(1)))>>
    /\ am_arg.traits = <<AppliedTrait(Prelude("documentation"), SomeOpt(VInteger(2)))>>
    /\ Len(model.shapes[am_arg.id].traits) = 2

(***************************************************************************)
(* Claims about parallel reads of one Model.                               *)
(***************************************************************************)
\* C10: when two write calls, each with its own writer and output, run
\* interleaved over the same Model, each ends with exactly what it ends with
\* when run alone, and the Model is unchanged.
C10_ParallelWritesAsAlone ==
    /\ model = par_model
    /\ \A w \in DOMAIN par_pc :
            par_pc[w] = "done" =>
                par_result[w] =
                    write(par_writer[w].pretty_print, par_writer[w].w_fails, par_model)

\* One call has ended with Ok, with the whole Model of two shapes and metadata
\* written, while the other call is in the middle of its loop over the shapes.
C10_Witness ==
    /\ Cardinality(DOMAIN model.shapes) = 2 /\ has_metadata(model)
    /\ par_pc[1] = "done" /\ par_result[1].status = "Ok"
    /\ DOMAIN par_result[1].doc.o[K_SHAPES].o =
            {ShapeIdToString(id) : id \in DOMAIN model.shapes} \cup {K_METADATA}
    /\ par_pc[2] = "shapes" /\ Cardinality(par_iter[2]) = 1


(***************************************************************************)
(* Claims about the validation Action framework.                           *)
(***************************************************************************)
RECURSIVE AllFindings(_)
AllFindings(outcomes) ==
    IF outcomes = <<>> THEN <<>>
    ELSE Head(outcomes).v \o AllFindings(Tail(outcomes))
SomeActionFails(outcomes) == \E k \in DOMAIN outcomes : outcomes[k].status = "Err"
RunReturned == run_result # NotCalled

\* What a returned run shows: Idle again, nothing collected left behind,
\* and either every Action's Findings in registration order or, when an
\* Action failed, the framework-level error alone.
C11_RunOutcome ==
    RunReturned =>
        /\ run_pc = "Idle" /\ run_i = 0 /\ run_findings = <<>>
        /\ run_result = IF SomeActionFails(run_actions)
                        THEN Err(ActionFailure)
                        ELSE Ok(AllFindings(run_actions))

\* The steps of a run: Idle to Running(1), Running(i) to Running(i + 1)
\* whenever Action i yielded Findings, of whatever severity, and i < n.
C11_RunSteps ==
    /\ (run_pc = "Idle" /\ ~RunReturned /\ run_actions # <<>>)
           => (run_pc' = "Running" /\ run_i' = 1)
    /\ (run_pc = "Running" /\ run_actions[run_i].status = "Ok")
           => IF run_i < Len(run_actions)
              THEN run_pc' = "Running" /\ run_i' = run_i + 1 /\ ~RunReturned'
              ELSE run_pc' = "Idle" /\ RunReturned'
    /\ (run_pc = "Running" /\ run_actions[run_i].status = "Err")
           => (run_pc' = "Idle" /\ run_result' = Err(ActionFailure))

\* C11: a validation run over n registered Actions goes Idle, Running(1),
\* ..., Running(n), Idle and returns: the result is the concatenation of
\* the Findings of all n Actions in registration order, a Finding of Error
\* severity never keeps a later Action from running, and the only other
\* outcome is the framework-level error when an Action itself fails, with
\* no partial list of Findings exposed.
C11_ValidationRunCompletes ==
    /\ []C11_RunOutcome
    /\ [][C11_RunSteps]_vars
    /\ <>RunReturned

\* A run of at least two Actions returned all Findings although the first
\* Action reported a Finding of Error severity and a later one reported too.
C11_Witness ==
    /\ RunReturned /\ run_result.status = "Ok"
    /\ Len(run_actions) >= 2
    /\ run_actions[1].v # <<>> /\ run_actions[1].v[1].severity = "Error"
    /\ run_actions[2].v # <<>> /\ run_actions[2].v[1].severity = "Warning"
    /\ Len(run_result.v) >= 2

(***************************************************************************)
(* Claims about the display name of a writer.                              *)
(***************************************************************************)
\* C12: every ModelWriter implementation, JsonWriter included, declares the
\* REPRESENTATION constant the trait requires, so that the writer of every
\* call of write is named by one fixed display string.
C12_EveryWriterNamed ==
    /\ \A impl \in WriterImpls :
           /\ ModelWriterItems \subseteq ImplItems(impl)
           /\ REPRESENTATION(impl) # NoneOpt
    /\ wpc \in {"call", "done"} => REPRESENTATION(JsonWriterImpl) # NoneOpt

\* A JsonWriter has written a Model, and JsonWriter has no REPRESENTATION
\* while the Debugger of the module documentation has.
C12_JsonWriterUnnamed ==
    /\ wpc = "done" /\ wresult.status = "Ok"
    /\ REPRESENTATION(JsonWriterImpl) = NoneOpt
    /\ REPRESENTATION(DebuggerImpl) = SomeOpt("Debug")

(***************************************************************************)
(* Claims about the shapes object and the bodies JsonWriter writes.        *)
(***************************************************************************)
WriteDone == wpc = "done" /\ wresult.status = "Ok"
ResourceIds == {id \in DOMAIN model.shapes : model.shapes[id].body.kind = "Resource"}
AggregateIds ==
    {id \in DOMAIN model.shapes : model.shapes[id].body.kind \in {"Structure", "Union"}}
TargetArray(ids) ==
    JArray([i \in DOMAIN ids |-> JObject([k \in {K_TARGET} |-> JString(ShapeIdToString(ids[i]))])])

\* A reference set of a resource is written under its own key and nowhere else.
SetUnderKey(sj, key, ids) ==
    /\ key \in DOMAIN sj.o <=> ids # <<>>
    /\ ids # <<>> => sj.o[key] = TargetArray(ids)

\* C13: for every Resource shape the three reference sets are written apart:
\* the instance operations under the operations key, the collection
\* operations under the collection-operations key and the child resources
\* under the resources key; no set is under another's key or overwrites one.
C13_ResourceSetsWrittenApart ==
    WriteDone =>
        \A id \in ResourceIds :
            LET b == model.shapes[id].body
                sj == WrittenShapes[ShapeIdToString(id)]
            IN  /\ SetUnderKey(sj, K_OPERATIONS, b.operations)
                /\ SetUnderKey(sj, K_COLLECTION_OPERATIONS, b.collection_operations)
                /\ SetUnderKey(sj, K_RESOURCES, b.resources)

\* A Resource with all three sets was written: its collection operations are
\* under the operations key, its child resources under the
\* collection-operations key, and its instance operations are nowhere.
C13_SetsUnderWrongKeys ==
    /\ WriteDone
    /\ \E id \in ResourceIds :
            LET b == model.shapes[id].body
                sj == WrittenShapes[ShapeIdToString(id)]
            IN  /\ b.operations # <<>> /\ b.collection_operations # <<>> /\ b.resources # <<>>
                /\ sj.o[K_OPERATIONS] = TargetArray(b.collection_operations)
                /\ sj.o[K_COLLECTION_OPERATIONS] = TargetArray(b.resources)
                /\ K_RESOURCES \notin DOMAIN sj.o
                /\ \A k \in DOMAIN sj.o : sj.o[k] # TargetArray(b.operations)

\* C14: for every Model, with or without metadata, the shapes object has one
\* entry per top-level shape of the Model, keyed by the canonical string of
\* its ShapeID, and no entry under any other key.
C14_ShapesObjectHoldsShapesOnly ==
    WriteDone =>
        /\ DOMAIN WrittenShapes = {ShapeIdToString(id) : id \in DOMAIN model.shapes}
        /\ Cardinality(DOMAIN WrittenShapes) = Cardinality(DOMAIN model.shapes)

\* A Model with shapes and metadata was written, and the shapes object has an
\* entry more than the Model has shapes: the one under the metadata key.
C14_MetadataKeyAmongShapeIds ==
    /\ WriteDone /\ has_metadata(model) /\ DOMAIN model.shapes # {}
    /\ Cardinality(DOMAIN WrittenShapes) = Cardinality(DOMAIN model.shapes) + 1
    /\ K_METADATA \in DOMAIN WrittenShapes
    /\ \A id \in DOMAIN model.shapes : ShapeIdToString(id) # K_METADATA

\* C15: for every Structure or Union shape the members object has one entry
\* per member of the shape, each with the canonical string of the member's
\* target ShapeID as its target, and a shape with no members is written with
\* its type and without a members entry.
C15_MembersWrittenOncePerMember ==
    WriteDone =>
        \A id \in AggregateIds :
            LET b == model.shapes[id].body
                sj == WrittenShapes[ShapeIdToString(id)]
            IN  /\ sj.o[K_TYPE] =
                       JString(IF b.kind = "Structure" THEN V_STRUCTURE ELSE V_UNION)
                /\ K_MEMBERS \in DOMAIN sj.o <=> b.members # <<>>
                /\ b.members # <<>> =>
                       /\ sj.o[K_MEMBERS].t = "obj"
                       /\ Cardinality(DOMAIN sj.o[K_MEMBERS].o) = Len(b.members)
                       /\ \A i \in DOMAIN b.members :
                              LET k == ShapeIdToString(b.members[i].id) IN
                              /\ k \in DOMAIN sj.o[K_MEMBERS].o
                              /\ sj.o[K_MEMBERS].o[k].o[K_TARGET] =
                                     JString(ShapeIdToString(b.members[i].target))

\* A Structure of two members with different targets and a shape without
\* members were written by one call.
C15_Witness ==
    /\ WriteDone
    /\ \E id \in AggregateIds :
            /\ Len(model.shapes[id].body.members) = 2
            /\ model.shapes[id].body.members[1].target # model.shapes[id].body.members[2].target
            /\ Cardinality(DOMAIN WrittenShapes[ShapeIdToString(id)].o[K_MEMBERS].o) = 2
    /\ \E id \in AggregateIds :
            /\ model.shapes[id].body.members = <<>>
            /\ DOMAIN WrittenShapes[ShapeIdToString(id)].o = {K_TYPE}

(***************************************************************************)
(* Claims about Version.                                                   *)
(***************************************************************************)
\* C16: parsing is the exact inverse of display: for every Version v, the
\* default and current one included, from_str(v.to_string()) is Ok(v); and
\* for every string s that is not the display form of a Version (not "1.0"),
\* from_str(s) is the error InvalidVersionNumber carrying s.
C16_FromStrInvertsDisplay ==
    /\ ver_pc \in {"default", "current"} => ver_v = V10
    /\ ver_pc = "shown" => ver_s = "1.0"
    /\ ver_pc = "reparsed" => ver_result = Ok(ver_v)
    /\ ver_pc = "parsed" =>
           IF ver_s = "1.0"
           THEN ver_result = Ok(V10)
           ELSE /\ ver_result.status = "Err"
                /\ ver_result.e.kind = "InvalidVersionNumber"
                /\ ver_result.e.arg = ver_s

\* The display form of a Version was parsed back to that Version.
C16_Witness ==
    /\ ver_pc = "reparsed" /\ ver_v = V10
    /\ ver_s = "1.0" /\ ver_result = Ok(V10)

====
